---- MODULE Spec2Model ----
(***************************************************************************)
(* A model of the matching and resolution engine of wap (src/wap).         *)
(* Strings that the code inspects character by character (version          *)
(* templates, capture groups, versions) are sequences of one-character     *)
(* strings. Names and opaque signal values are TLA+ strings.               *)
(***************************************************************************)
EXTENDS Integers, Sequences, FiniteSets, TLC

VARIABLES
    technologies,    \* the rule set: the Technology records in dict order
    signals,         \* the arguments of discover_technologies / match_all
    pc,              \* position in discover_technologies
    pattern_matches, \* match_all's hits, then list(set(pattern_matches))
    techno_matches,  \* the TechMatch list handed from one resolver to the next
    techno_impls,    \* resolve_implies: the accumulating output
    stack,           \* resolve_implies: the frames of _resolve_implies_inner
    outer,           \* resolve_implies: position of the outer for loop
    techn_excls,     \* resolve_excludes: the kept matches
    result,          \* what discover_technologies returned
    run,             \* how many times discovery was started on these inputs
    previous,        \* the result of the run before
    version,         \* _resolve_version: the template argument
    matches,         \* _resolve_version: regex.search(value), NoMatch or the groups
    resolved,        \* _resolve_version: the working string
    index,           \* _resolve_version: the loop index of enumerate(matches)
    vpc              \* _resolve_version: position in the function

pipeVars == <<technologies, signals, pc, pattern_matches, techno_matches,
              techno_impls, stack, outer, techn_excls, result, run, previous>>

verVars == <<version, matches, resolved, index, vpc>>

vars == <<technologies, signals, pc, pattern_matches, techno_matches,
          techno_impls, stack, outer, techn_excls, result, run, previous,
          version, matches, resolved, index, vpc>>

-----------------------------------------------------------------------------
(* Python values *)

\* None: a capture group that did not participate, or a failed search
None == <<"None">>

\* regex.search(value) found nothing (a found match holds group 0 at least)
NoMatch == <<>>

Min(a, b) == IF a <= b THEN a ELSE b

-----------------------------------------------------------------------------
(* str methods used by _resolve_version *)

\* the characters str.strip() removes that the model's alphabet holds
Whitespace == {" "}

RECURSIVE LStrip(_)
LStrip(s) ==
    IF s # <<>> /\ Head(s) \in Whitespace THEN LStrip(Tail(s)) ELSE s

RECURSIVE RStrip(_)
RStrip(s) ==
    IF s # <<>> /\ s[Len(s)] \in Whitespace
    THEN RStrip(SubSeq(s, 1, Len(s) - 1))
    ELSE s

\* str.strip()
Strip(s) == RStrip(LStrip(s))

\* s[p:].startswith(sub), p a 1-based position
StartsWithAt(s, sub, p) ==
    /\ p + Len(sub) - 1 <= Len(s)
    /\ \A k \in 1..Len(sub) : s[p + k - 1] = sub[k]

\* str.replace(old, new) for a non-empty old: every non-overlapping
\* occurrence, left to right
RECURSIVE ReplaceFrom(_, _, _, _)
ReplaceFrom(s, old, new, p) ==
    IF p > Len(s) THEN <<>>
    ELSE IF StartsWithAt(s, old, p)
         THEN new \o ReplaceFrom(s, old, new, p + Len(old))
         ELSE <<s[p]>> \o ReplaceFrom(s, old, new, p + 1)

Replace(s, old, new) == ReplaceFrom(s, old, new, 1)

\* format(index): the decimal digits of a natural number
DigitChar(d) == <<"0", "1", "2", "3", "4", "5", "6", "7", "8", "9">>[d + 1]

RECURSIVE Format(_)
Format(n) ==
    IF n < 10 THEN <<DigitChar(n)>>
    ELSE Format(n \div 10) \o <<DigitChar(n % 10)>>

\* the back-reference of index: a backslash and the digits
BackRef(i) == <<"\\">> \o Format(i)

-----------------------------------------------------------------------------
(* re.search of the ternary regex on the template: a backslash, the index, *)
(* a question mark, one or more non-colon characters, a colon, the rest    *)

\* the length of the longest run of non-colon characters of s from p
RECURSIVE RunNoColon(_, _)
RunNoColon(s, p) ==
    IF p > Len(s) \/ s[p] = ":" THEN 0 ELSE 1 + RunNoColon(s, p + 1)

\* does the ternary regex match with its first character at p
TernaryAt(s, i, p) ==
    LET head == BackRef(i) \o <<"?">>
        q    == p + Len(head)
        span  == RunNoColon(s, q)
    IN  /\ StartsWithAt(s, head, p)
        /\ span >= 1
        /\ q + span <= Len(s)
        /\ s[q + span] = ":"

\* the leftmost position where the ternary regex matches, 0 when none
RECURSIVE TernaryPos(_, _, _)
TernaryPos(s, i, p) ==
    IF p > Len(s) THEN 0
    ELSE IF TernaryAt(s, i, p) THEN p
    ELSE TernaryPos(s, i, p + 1)

\* [ternary.group()] + list(ternary.groups()), or the empty sequence when
\* re.search returns None
TernarySearch(s, i) ==
    LET p == TernaryPos(s, i, 1) IN
    IF p = 0 THEN <<>>
    ELSE LET q   == p + Len(BackRef(i)) + 1
             span == RunNoColon(s, q)
         IN  << SubSeq(s, p, Len(s)),
                SubSeq(s, q, q + span - 1),
                SubSeq(s, q + span + 1, Len(s)) >>

-----------------------------------------------------------------------------
(* _resolve_version *)

\* a test that takes an empty group for a matched one
TruthyNotNone(match) == match # None

\* Python truthiness of a capture group: not None and not empty
Truthy(match) == match # None /\ match # <<>>

\* match or the empty string
OrEmpty(match) == IF Truthy(match) THEN match ELSE <<>>

\* the ternary branch of one loop iteration (lines 332-341): the replacement
\* is made in the template `version`, and overwrites the working string
TernaryStep(ver, res, i, match) ==
    LET ternary == TernarySearch(ver, i) IN
    IF ternary # <<>> /\ Len(ternary) = 3
    THEN Replace(ver, ternary[1], IF Truthy(match) THEN ternary[2] ELSE ternary[3])
    ELSE res

\* one iteration of the loop over enumerate(matches) (lines 331-346)
ResolveStep(ver, res, i, match) ==
    Replace(Strip(TernaryStep(ver, res, i, match)), BackRef(i), OrEmpty(match))

\* the loop from position k (1-based position in matches, index k - 1)
RECURSIVE ResolveLoop(_, _, _, _)
ResolveLoop(ver, grps, res, k) ==
    IF k > Len(grps) THEN res
    ELSE ResolveLoop(ver, grps, ResolveStep(ver, res, k - 1, grps[k]), k + 1)

\* _resolve_version(version, regex, value), with regex.search(value) = found
ResolveVersion(ver, found) ==
    IF ver = <<>> THEN ver
    ELSE IF found = NoMatch THEN ver
    ELSE ResolveLoop(ver, found, ver, 1)

-----------------------------------------------------------------------------
(* The bounded inputs of _resolve_version *)

\* the largest number of capture groups of a regex
MaxGroups == 2

\* what a capture group 1..N can hold
GroupTexts == {None, <<>>, <<"x">>}

\* what group 0, the whole match, can hold
WholeTexts == {<<>>, <<"x", "y">>}

\* the literal pieces a template is put together from
Pieces == {<<>>, <<"a">>, <<" ">>, <<"\\", "0">>, <<"\\", "1">>, <<"\\", "2">>}

\* the branches of a ternary expression
TrueBranches == {<<"a">>, <<" ", "a">>, <<"\\", "1">>}
FalseBranches == {<<>>, <<"b">>, <<"b", " ">>, <<"\\", "2">>}

Ternary(i, t, f) == BackRef(i) \o <<"?">> \o t \o <<":">> \o f

Ternaries ==
    {Ternary(i, t, f) : i \in 0..MaxGroups, t \in TrueBranches, f \in FalseBranches}

Templates ==
    {p1 \o p2 \o t : p1 \in Pieces, p2 \in Pieces, t \in Ternaries \cup {<<>>}}

SearchResults ==
    {NoMatch} \cup
    UNION {{<<g0>> \o gs : g0 \in WholeTexts, gs \in [1..n -> GroupTexts]}
           : n \in 0..MaxGroups}


-----------------------------------------------------------------------------
(* structs.py *)

\* Pattern: the rule string, the key it was declared under, its confidence
\* and version template; regex is compiled from value, so value names it
Pattern(value, key, confidence, ver) ==
    [value |-> value, key |-> key, confidence |-> confidence, version |-> ver]

\* Imply and Exclude
Imply(name, confidence) == [name |-> name, confidence |-> confidence]
Exclude(name) == [name |-> name]

\* Technology: the fields the engine reads; a keyed field is the sequence of
\* its [key, patterns] entries in dict order
Technology(name, url, headers, cookies, html, meta, scripts, js, implies, excludes) ==
    [name |-> name, url |-> url, headers |-> headers, cookies |-> cookies,
     html |-> html, meta |-> meta, scripts |-> scripts, js |-> js,
     implies |-> implies, excludes |-> excludes]

\* PatternMatch and TechMatch; technology is held by name and looked up in
\* the rule set where its fields are read
PatternMatch(technology, pattern, ver) ==
    [technology |-> technology, pattern |-> pattern, version |-> ver]

TechMatch(technology, confidence, ver) ==
    [technology |-> technology, confidence |-> confidence, version |-> ver]

\* PatternMatch.__eq__: key and value are compared with self's own
PatternMatchEq(self, o) ==
    /\ self.technology = o.technology
    /\ self.pattern.key = self.pattern.key
    /\ self.pattern.value = self.pattern.value

\* PatternMatch.__hash__: the hashed tuple (equal tuples, equal hashes)
PatternMatchHash(self) ==
    <<self.technology, self.pattern.key, self.pattern.value>>

\* TechMatch.__eq__, also what a TechMatch answers to == with a PatternMatch
TechMatchEq(self, o) == self.technology = o.technology

-----------------------------------------------------------------------------
(* Sequences and dicts *)

RECURSIVE Concat(_)
Concat(ss) == IF ss = <<>> THEN <<>> ELSE Head(ss) \o Concat(Tail(ss))

\* the names of the rule set, and technologies[name]
TechNames(techs) == {techs[i].name : i \in 1..Len(techs)}
Lookup(techs, name) ==
    techs[CHOOSE i \in 1..Len(techs) : techs[i].name = name]

\* dict.get(key, []) on a dict kept as [key, values] entries
Get(pairs, key) ==
    IF \E i \in 1..Len(pairs) : pairs[i].key = key
    THEN pairs[CHOOSE i \in 1..Len(pairs) : pairs[i].key = key].values
    ELSE <<>>

\* str.lower() on the keys of the model
Lower(k) == IF k = "SID" THEN "sid" ELSE k

\* pairs_local[k.lower()] = pairs[k] for k in pairs, then .get(key, []):
\* the last entry whose lowered key is key wins
GetLowered(pairs, key) ==
    LET hits == {i \in 1..Len(pairs) : Lower(pairs[i].key) = key} IN
    IF hits = {} THEN <<>>
    ELSE pairs[CHOOSE i \in hits : \A j \in hits : j <= i].values

-----------------------------------------------------------------------------
(* The regex engine on the values of the model: pattern.regex.search(value) *)
(* as the groups it finds, group 0 first, or NoMatch                        *)

Search(regex, value) ==
    CASE regex = "pa" /\ value = "u1" -> << <<"a", "3">>, <<"3">> >>
      [] regex = "pb" /\ value \in {"", "u1", "u2"} -> << <<>> >>
      [] regex = "ps" /\ value = "k1" -> << <<"s", "1">>, <<"1">> >>
      [] regex = "ps" /\ value = "k2" -> << <<"s", "2", "2">>, <<"2", "2">> >>
      [] regex = "pc" /\ value = "h1" -> << <<"h">> >>
      [] OTHER -> NoMatch

-----------------------------------------------------------------------------
(* match.py: the signal matcher *)

\* _match_patterns
MatchPatterns(patterns, tech, value) ==
    LET Hit(p) == Search(p.value, value) # NoMatch
        found  == SelectSeq(patterns, Hit)
    IN  [k \in 1..Len(found) |->
            PatternMatch(tech.name, found[k],
                         ResolveVersion(found[k].version, Search(found[k].value, value)))]

\* match_str
MatchStr(tech, field, value) == MatchPatterns(tech[field], tech, value)

\* match_list
MatchList(tech, field, values) ==
    Concat([k \in 1..Len(values) |-> MatchPatterns(tech[field], tech, values[k])])

\* match_pairs: cookies look the rule key up among the lowered supplied keys
MatchPairs(tech, field, pairs) ==
    LET Values(key) == IF field = "cookies" THEN GetLowered(pairs, key)
                       ELSE Get(pairs, key)
        PerKey(e)   == LET vs == Values(e.key) IN
                       Concat([k \in 1..Len(vs) |-> MatchPatterns(e.patterns, tech, vs[k])])
    IN  Concat([k \in 1..Len(tech[field]) |-> PerKey(tech[field][k])])

\* match_parts over match_funcs: a field whose argument is empty or absent
\* has no function in the list
MatchTechno(tech, sig) ==
       (IF sig.url # ""       THEN MatchStr(tech, "url", sig.url) ELSE <<>>)
    \o (IF sig.headers # <<>> THEN MatchPairs(tech, "headers", sig.headers) ELSE <<>>)
    \o (IF sig.cookies # <<>> THEN MatchPairs(tech, "cookies", sig.cookies) ELSE <<>>)
    \o (IF sig.html # ""      THEN MatchStr(tech, "html", sig.html) ELSE <<>>)
    \o (IF sig.metas # <<>>   THEN MatchPairs(tech, "meta", sig.metas) ELSE <<>>)
    \o (IF sig.scripts # <<>> THEN MatchList(tech, "scripts", sig.scripts) ELSE <<>>)
    \o (IF sig.js_vars # <<>> THEN MatchPairs(tech, "js", sig.js_vars) ELSE <<>>)

\* match_all: every technology of the rule set in dict order
MatchAll(techs, sig) ==
    Concat([k \in 1..Len(techs) |-> MatchTechno(techs[k], sig)])

-----------------------------------------------------------------------------
(* match.py: resolve_techno_matches, line 358, list(set(pattern_matches)) *)

\* set(): a hit is dropped when the set already holds one with the same hash
\* that answers equal; the first one inserted stays
InSet(pms, k) ==
    \E j \in 1..(k - 1) :
        /\ PatternMatchHash(pms[j]) = PatternMatchHash(pms[k])
        /\ PatternMatchEq(pms[j], pms[k])

\* a resolve_techno_matches that keeps every hit: list() without set()
SetOfKeepsAll(pms) == pms

SetOf(pms) ==
    LET keep == {k \in 1..Len(pms) : ~InSet(pms, k)}
        Nth(n) == CHOOSE k \in keep : Cardinality({j \in keep : j < k}) = n - 1
    IN  [n \in 1..Cardinality(keep) |-> pms[Nth(n)]]

\* list(): the orders in which the set can be iterated (the hash of a str
\* differs from one interpreter run to the next)
ListsOf(s) ==
    {[n \in 1..Len(s) |-> s[p[n]]] : p \in Permutations(1..Len(s))}

-----------------------------------------------------------------------------
(* match.py: extract_techno_matches *)

\* the cap of the confidence (line 381) and of a version's length (line 383)
ConfidenceCap == 100
VersionCap == 10

\* line 381
AddConfidence(confidence, pt_match) ==
    Min(ConfidenceCap, confidence + pt_match.pattern.confidence)

\* a version choice whose length comparison is not strict
PickVersionNotStrict(ver, pt_match) ==
    IF Len(ver) <= Len(pt_match.version) /\ Len(pt_match.version) <= VersionCap
    THEN pt_match.version
    ELSE ver

\* lines 382-384
PickVersion(ver, pt_match) ==
    IF Len(ver) < Len(pt_match.version) /\ Len(pt_match.version) <= VersionCap
    THEN pt_match.version
    ELSE ver

\* lines 374-384: the inner loop from position k, as <<confidence, version>>
RECURSIVE Aggregate(_, _, _, _)
Aggregate(pms, pattern_match, k, acc) ==
    IF k > Len(pms) THEN acc
    ELSE IF ~PatternMatchEq(pms[k], pattern_match)
         THEN Aggregate(pms, pattern_match, k + 1, acc)
         ELSE Aggregate(pms, pattern_match, k + 1,
                        <<AddConfidence(acc[1], pms[k]), PickVersion(acc[2], pms[k])>>)

\* a membership test that looks at the last element of the list only
InTechMatchesLast(tms, m) == tms # <<>> /\ TechMatchEq(tms[Len(tms)], m)

\* pattern_match in techno_matches (line 373): list membership by ==
InTechMatches(tms, m) == \E j \in 1..Len(tms) : TechMatchEq(tms[j], m)

\* lines 371-391: the outer loop from position k
RECURSIVE ExtractFrom(_, _, _)
ExtractFrom(pms, k, tms) ==
    IF k > Len(pms) THEN tms
    ELSE IF InTechMatches(tms, pms[k])
         THEN ExtractFrom(pms, k + 1, tms)
         ELSE LET acc == Aggregate(pms, pms[k], 1, <<0, <<>>>>) IN
              ExtractFrom(pms, k + 1,
                          Append(tms, TechMatch(pms[k].technology, acc[1], acc[2])))

ExtractTechnoMatches(pms) == ExtractFrom(pms, 1, <<>>)

-----------------------------------------------------------------------------
(* match.py: resolve_implies and _resolve_implies_inner *)

\* the interpreter's limit on nested calls, scaled down
RecursionLimit == 6

\* derived matches that take the confidence their imply entry declares
ImpliedMatchesDeclared(techno_match, techs) ==
    LET implies == Lookup(techs, techno_match.technology).implies IN
    [k \in 1..Len(implies) |-> TechMatch(implies[k].name, implies[k].confidence, <<>>)]

\* derived matches in the reverse of the declaration order
ImpliedMatchesReversed(techno_match, techs) ==
    LET implies == Lookup(techs, techno_match.technology).implies
        n       == Len(implies)
    IN  [k \in 1..n |->
            TechMatch(implies[n + 1 - k].name,
                      Min(implies[n + 1 - k].confidence, techno_match.confidence),
                      <<>>)]

\* derived matches that inherit the version of the match that implies them
ImpliedMatchesKeepVersion(techno_match, techs) ==
    LET implies == Lookup(techs, techno_match.technology).implies IN
    [k \in 1..Len(implies) |->
        TechMatch(implies[k].name,
                  Min(implies[k].confidence, techno_match.confidence),
                  techno_match.version)]

\* lines 414-421: the list of derived matches, built before any is visited
ImpliedMatches(techno_match, techs) ==
    LET implies == Lookup(techs, techno_match.technology).implies IN
    [k \in 1..Len(implies) |->
        TechMatch(implies[k].name,
                  Min(implies[k].confidence, techno_match.confidence),
                  <<>>)]

\* technologies[imply.name] fails for some imply of the technology
DanglingImply(techno_match, techs) ==
    LET implies == Lookup(techs, techno_match.technology).implies IN
    \E k \in 1..Len(implies) : implies[k].name \notin TechNames(techs)

\* a membership test by all the fields of TechMatch, as without __eq__
NotRecordedByFields(impls, techno_match) ==
    \A j \in 1..Len(impls) : impls[j] # techno_match

\* techno_match not in techno_impls (line 412)
NotRecorded(impls, techno_match) == ~InTechMatches(impls, techno_match)

\* one call of _resolve_implies_inner up to its for loop, from a caller with
\* frames stk: the new techno_impls, frames and outcome
InnerCall(impls, stk, techno_match, techs) ==
    IF Len(stk) >= RecursionLimit
    THEN [impls |-> impls, stack |-> stk, raised |-> "RecursionError"]
    ELSE IF ~NotRecorded(impls, techno_match)
    THEN [impls |-> impls, stack |-> stk, raised |-> "no"]
    ELSE IF DanglingImply(techno_match, techs)
    THEN [impls |-> Append(impls, techno_match), stack |-> stk, raised |-> "KeyError"]
    ELSE [impls |-> Append(impls, techno_match),
          stack |-> Append(stk, ImpliedMatches(techno_match, techs)),
          raised |-> "no"]

\* what a call leaves behind: an exception ends discovery with its name
AfterCall(r) ==
    /\ techno_impls' = r.impls
    /\ stack' = r.stack
    /\ pc' = IF r.raised = "no" THEN pc ELSE r.raised

\* lines 402-403: the outer loop calls _resolve_implies_inner
ImpliesCall ==
    /\ pc = "implies"
    /\ stack = <<>>
    /\ outer <= Len(techno_matches)
    /\ AfterCall(InnerCall(techno_impls, stack, techno_matches[outer], technologies))
    /\ outer' = outer + 1
    /\ UNCHANGED <<technologies, signals, pattern_matches, techno_matches,
                   techn_excls, result, run, previous, verVars>>

\* lines 422-423: the running call visits its next implied technology
ImpliesRecurse ==
    /\ pc = "implies"
    /\ stack # <<>>
    /\ stack[Len(stack)] # <<>>
    /\ LET top  == stack[Len(stack)]
           rest == [stack EXCEPT ![Len(stack)] = Tail(top)]
       IN  AfterCall(InnerCall(techno_impls, rest, Head(top), technologies))
    /\ UNCHANGED <<technologies, signals, pattern_matches, techno_matches,
                   outer, techn_excls, result, run, previous, verVars>>

\* the running call has visited all its implied technologies and returns
ImpliesUnwind ==
    /\ pc = "implies"
    /\ stack # <<>>
    /\ stack[Len(stack)] = <<>>
    /\ stack' = SubSeq(stack, 1, Len(stack) - 1)
    /\ UNCHANGED <<technologies, signals, pc, pattern_matches, techno_matches,
                   techno_impls, outer, techn_excls, result, run, previous, verVars>>

\* line 404 and line 360: resolve_implies returns techno_impls
ImpliesReturn ==
    /\ pc = "implies"
    /\ stack = <<>>
    /\ outer > Len(techno_matches)
    /\ techno_matches' = techno_impls
    /\ pc' = "excludes"
    /\ UNCHANGED <<technologies, signals, pattern_matches, techno_impls, stack,
                   outer, techn_excls, result, run, previous, verVars>>

-----------------------------------------------------------------------------
(* match.py: resolve_excludes *)

\* a resolve_excludes that drops, with an excluded match, the matches of the
\* technologies the excluded one implies
DropExcludedWithImplied(pool, techno_match, techs) ==
    LET excludes == Lookup(techs, techno_match.technology).excludes
        names    == {excludes[k].name : k \in 1..Len(excludes)}
        Implied(name) == LET implies == Lookup(techs, name).implies
                         IN  {implies[k].name : k \in 1..Len(implies)}
        gone     == names \cup UNION {Implied(pool[k].technology) :
                                        k \in {j \in 1..Len(pool) : pool[j].technology \in names}}
        Stays(tm) == tm.technology \notin gone
    IN  SelectSeq(pool, Stays)

\* a resolve_excludes that reads the excludes of the pooled match instead of
\* those of the kept one
DropExcludedReversed(pool, techno_match, techs) ==
    LET Excludes(tm) == LET excludes == Lookup(techs, tm.technology).excludes
                        IN  {excludes[k].name : k \in 1..Len(excludes)}
        Stays(tm) == techno_match.technology \notin Excludes(tm)
    IN  SelectSeq(pool, Stays)

\* lines 441-445: the pool without the matches the kept one excludes
DropExcluded(pool, techno_match, techs) ==
    LET excludes == Lookup(techs, techno_match.technology).excludes
        names    == {excludes[k].name : k \in 1..Len(excludes)}
        Stays(tm) == tm.technology \notin names
    IN  SelectSeq(pool, Stays)

\* lines 438-445: one iteration of the while loop
ExcludesIter ==
    /\ pc = "excludes"
    /\ techno_matches # <<>>
    /\ techn_excls' = Append(techn_excls, Head(techno_matches))
    /\ techno_matches' = DropExcluded(Tail(techno_matches), Head(techno_matches),
                                      technologies)
    /\ UNCHANGED <<technologies, signals, pc, pattern_matches, techno_impls,
                   stack, outer, result, run, previous, verVars>>

\* lines 447-450: pop on the empty pool ends the loop; techn_excls is returned
ExcludesReturn ==
    /\ pc = "excludes"
    /\ techno_matches = <<>>
    /\ result' = techn_excls
    /\ pc' = "done"
    /\ UNCHANGED <<technologies, signals, pattern_matches, techno_matches,
                   techno_impls, stack, outer, techn_excls, run, previous, verVars>>

-----------------------------------------------------------------------------
(* match.py: discover_technologies, match_all then resolve_techno_matches *)

\* lines 30-38: match_all is consumed
MatchAllStep ==
    /\ pc = "match_all"
    /\ pattern_matches' = MatchAll(technologies, signals)
    /\ pc' = "set"
    /\ UNCHANGED <<technologies, signals, techno_matches, techno_impls, stack,
                   outer, techn_excls, result, run, previous, verVars>>

\* line 358: list(set(pattern_matches)), in one of the set's orders
SetStep ==
    /\ pc = "set"
    /\ pattern_matches' \in ListsOf(SetOf(pattern_matches))
    /\ pc' = "extract"
    /\ UNCHANGED <<technologies, signals, techno_matches, techno_impls, stack,
                   outer, techn_excls, result, run, previous, verVars>>

\* line 359: extract_techno_matches; resolve_implies starts on its output
ExtractStep ==
    /\ pc = "extract"
    /\ techno_matches' = ExtractTechnoMatches(pattern_matches)
    /\ techno_impls' = <<>>
    /\ stack' = <<>>
    /\ outer' = 1
    /\ pc' = "implies"
    /\ UNCHANGED <<technologies, signals, pattern_matches, techn_excls, result,
                   run, previous, verVars>>

\* discover_technologies is called again with the same rule set and signals,
\* in a new interpreter
Rerun ==
    /\ pc = "done"
    /\ run = 1
    /\ run' = 2
    /\ previous' = result
    /\ pc' = "match_all"
    /\ pattern_matches' = <<>>
    /\ techno_matches' = <<>>
    /\ techno_impls' = <<>>
    /\ stack' = <<>>
    /\ outer' = 1
    /\ techn_excls' = <<>>
    /\ result' = <<>>
    /\ UNCHANGED <<technologies, signals, verVars>>

-----------------------------------------------------------------------------
(* The bounded rule sets and signals *)

Chars(n, c) == [k \in 1..n |-> c]

\* the version templates of the rule set
Group1 == <<"\\", "1">>

\* the rule set: A, B and C in dict order. A has a url pattern and a cookie
\* pattern declared under SID (the loader lowers the dict key, the pattern
\* keeps the key as written); B has a url pattern that matches every string;
\* C has an html pattern
Rules(ca, ia, ib, ic, ea, eb, ec) ==
    << Technology("A",
                  <<Pattern("pa", "main", ca, Group1)>>,
                  <<>>,
                  <<[key |-> "sid", patterns |-> <<Pattern("ps", "SID", 40, Group1)>>]>>,
                  <<>>, <<>>, <<>>, <<>>, ia, ea),
       Technology("B",
                  <<Pattern("pb", "main", 100, <<>>)>>,
                  <<>>, <<>>, <<>>, <<>>, <<>>, <<>>, ib, eb),
       Technology("C",
                  <<>>, <<>>, <<>>,
                  <<Pattern("pc", "main", 100, <<>>)>>,
                  <<>>, <<>>, <<>>, ic, ec) >>

\* the longest list of values observed under one cookie name
MaxCookieValues == 2

CookieValueLists ==
    UNION {[1..n -> {"k1", "k2"}] : n \in 1..MaxCookieValues}

Signals ==
    {[url |-> u, html |-> h, scripts |-> <<>>, cookies |-> c,
      metas |-> <<>>, headers |-> <<>>, js_vars |-> <<>>] :
        u \in {"", "u1"}, h \in {"", "h1"},
        c \in {<<>>} \cup {<<[key |-> "SID", values |-> vs]>> : vs \in CookieValueLists}}

\* the rule sets of discovery: the confidence of A's url pattern, and the
\* implies and excludes of A and B (Ghost is no technology of the rule set)
RuleSets ==
    {Rules(ca, ia, ib, <<>>, ea, eb, <<>>) :
        ca \in {0 - 50, 40},
        ia \in {<<>>, <<Imply("C", 70)>>, <<Imply("Ghost", 100)>>},
        ib \in {<<>>, <<Imply("C", 100)>>},
        ea \in {<<>>, <<Exclude("B")>>, <<Exclude("Ghost")>>},
        eb \in {<<>>, <<Exclude("A")>>}}

IdleVersion ==
    /\ version = <<>>
    /\ matches = NoMatch
    /\ resolved = <<>>
    /\ index = 0
    /\ vpc = "idle"

Init ==
    /\ technologies \in RuleSets
    /\ signals \in Signals
    /\ pc = "match_all"
    /\ pattern_matches = <<>>
    /\ techno_matches = <<>>
    /\ techno_impls = <<>>
    /\ stack = <<>>
    /\ outer = 1
    /\ techn_excls = <<>>
    /\ result = <<>>
    /\ run = 1
    /\ previous = <<>>
    /\ IdleVersion

Next ==
    \/ MatchAllStep
    \/ SetStep
    \/ ExtractStep
    \/ ImpliesCall
    \/ ImpliesRecurse
    \/ ImpliesUnwind
    \/ ImpliesReturn
    \/ ExcludesIter
    \/ ExcludesReturn
    \/ Rerun

Spec == Init /\ [][Next]_vars

-----------------------------------------------------------------------------
(* extract_techno_matches on its own: any list of hits of A and B *)

\* the longest list of pattern matches handed to extract_techno_matches
MaxHits == 3

HitPatternValues == <<"p1", "p2", "p3", "p4", "p5">>

HitConfidences == {0 - 50, 40, 150}

SampleVersions ==
    {<<>>, <<"1">>, <<"2">>, Chars(VersionCap, "9"), Chars(VersionCap + 1, "9")}

\* a list of hits: the k-th hit comes from the k-th pattern
HitList(techs, confidences, versions) ==
    [k \in 1..Len(techs) |->
        PatternMatch(techs[k],
                     Pattern(HitPatternValues[k], "main", confidences[k], <<>>),
                     versions[k])]

NoRelations == Rules(100, <<>>, <<>>, <<>>, <<>>, <<>>, <<>>)

NoSignals ==
    [url |-> "", html |-> "", scripts |-> <<>>, cookies |-> <<>>,
     metas |-> <<>>, headers |-> <<>>, js_vars |-> <<>>]

InitExtract ==
    /\ technologies = NoRelations
    /\ signals = NoSignals
    /\ pc = "extract"
    /\ \E n \in 0..MaxHits :
         \E t \in [1..n -> {"A", "B"}], c \in [1..n -> HitConfidences],
            v \in [1..n -> SampleVersions] :
                pattern_matches = HitList(t, c, v)
    /\ techno_matches = <<>>
    /\ techno_impls = <<>>
    /\ stack = <<>>
    /\ outer = 1
    /\ techn_excls = <<>>
    /\ result = <<>>
    /\ run = 1
    /\ previous = <<>>
    /\ IdleVersion

NextExtract == ExtractStep

SpecExtract == InitExtract /\ [][NextExtract]_vars

-----------------------------------------------------------------------------
(* resolve_implies on its own: any implies relation, any input *)

\* the longest list of matches handed to resolve_implies
MaxMatches == 2

\* the lists of at most n of the given Imply entries
ImplyLists(entries, n) == UNION {[1..m -> entries] : m \in 0..n}

\* a technology without patterns, present only through implication
Unmatched(name, implies) ==
    Technology(name, <<>>, <<>>, <<>>, <<>>, <<>>, <<>>, <<>>, implies, <<>>)

\* A, B, C and a fourth technology D that only implication reaches
ImplyRuleSets ==
    {Rules(100, ia, ib, ic, <<>>, <<>>, <<>>) \o <<Unmatched("D", id)>> :
        ia \in ImplyLists({Imply("B", 50), Imply("B", 100), Imply("C", 50),
                           Imply("C", 100), Imply("Ghost", 100)}, 2),
        ib \in ImplyLists({Imply("A", 100), Imply("C", 50), Imply("C", 100),
                           Imply("D", 100)}, 1),
        ic \in ImplyLists({Imply("A", 100), Imply("B", 100)}, 1),
        id \in ImplyLists({Imply("A", 100)}, 1)}

DirectMatches == {TechMatch(t, 70, <<"1">>) : t \in {"A", "B", "C"}}

MatchLists == UNION {[1..n -> DirectMatches] : n \in 1..MaxMatches}

InitImplies ==
    /\ technologies \in ImplyRuleSets
    /\ signals = NoSignals
    /\ pc = "implies"
    /\ pattern_matches = <<>>
    /\ techno_matches \in MatchLists
    /\ techno_impls = <<>>
    /\ stack = <<>>
    /\ outer = 1
    /\ techn_excls = <<>>
    /\ result = <<>>
    /\ run = 1
    /\ previous = <<>>
    /\ IdleVersion

NextImplies == ImpliesCall \/ ImpliesRecurse \/ ImpliesUnwind \/ ImpliesReturn

SpecImplies == InitImplies /\ [][NextImplies]_vars

\* the interpreter runs a call to its end: no step waits on anything
FairImplies == SpecImplies /\ WF_vars(NextImplies)

-----------------------------------------------------------------------------
(* resolve_excludes on its own: any excludes relation, any input *)

\* the longest list of matches handed to resolve_excludes
MaxPool == 3

ExcludeLists(names, n) == UNION {[1..m -> {Exclude(x) : x \in names}] : m \in 0..n}

ExcludeRuleSets ==
    {Rules(100, <<>>, <<>>, <<>>, ea, eb, ec) :
        ea \in ExcludeLists({"A", "B", "C", "Ghost"}, 2),
        eb \in ExcludeLists({"A", "C"}, 1),
        ec \in ExcludeLists({"A", "B"}, 1)}

PoolLists ==
    UNION {[1..n -> {TechMatch(t, 100, <<>>) : t \in {"A", "B", "C"}}] : n \in 0..MaxPool}

\* techno_impls stands for the caller's list, which the function copies
InitExcludes ==
    /\ technologies \in ExcludeRuleSets
    /\ signals = NoSignals
    /\ pc = "excludes"
    /\ pattern_matches = <<>>
    /\ techno_matches \in PoolLists
    /\ techno_impls = techno_matches
    /\ stack = <<>>
    /\ outer = 1
    /\ techn_excls = <<>>
    /\ result = <<>>
    /\ run = 1
    /\ previous = <<>>
    /\ IdleVersion

NextExcludes == ExcludesIter \/ ExcludesReturn

SpecExcludes == InitExcludes /\ [][NextExcludes]_vars

-----------------------------------------------------------------------------
(* resolve_implies then resolve_excludes, lines 360-362 of                  *)
(* resolve_techno_matches: any implies and excludes relation, any input     *)

ResolveRuleSets ==
    {(Rules(100, ia, ib, ic, ea, eb, ec) \o <<Unmatched("D", <<>>)>>) :
        ia \in ImplyLists({Imply("B", 100), Imply("C", 100)}, 1),
        ib \in ImplyLists({Imply("C", 100), Imply("D", 100)}, 1),
        ic \in ImplyLists({Imply("D", 100)}, 1),
        ea \in ExcludeLists({"B", "C", "D"}, 1),
        eb \in ExcludeLists({"A", "C"}, 1),
        ec \in ExcludeLists({"B", "D"}, 1)}

InitResolve ==
    /\ technologies \in ResolveRuleSets
    /\ signals = NoSignals
    /\ pc = "implies"
    /\ pattern_matches = <<>>
    /\ techno_matches \in MatchLists
    /\ techno_impls = <<>>
    /\ stack = <<>>
    /\ outer = 1
    /\ techn_excls = <<>>
    /\ result = <<>>
    /\ run = 1
    /\ previous = <<>>
    /\ IdleVersion

NextResolve ==
    \/ ImpliesCall
    \/ ImpliesRecurse
    \/ ImpliesUnwind
    \/ ImpliesReturn
    \/ ExcludesIter
    \/ ExcludesReturn

SpecResolve == InitResolve /\ [][NextResolve]_vars

-----------------------------------------------------------------------------
(* _resolve_version as a state machine *)

IdlePipeline ==
    /\ technologies = <<>>
    /\ signals = <<>>
    /\ pc = "idle"
    /\ pattern_matches = <<>>
    /\ techno_matches = <<>>
    /\ techno_impls = <<>>
    /\ stack = <<>>
    /\ outer = 1
    /\ techn_excls = <<>>
    /\ result = <<>>
    /\ run = 1
    /\ previous = <<>>

InitVersion ==
    /\ IdlePipeline
    /\ version \in Templates
    /\ matches \in SearchResults
    /\ resolved = <<>>
    /\ index = 0
    /\ vpc = "start"

\* lines 321-330: the two early returns, then resolved = version
VersionStart ==
    /\ vpc = "start"
    /\ IF version = <<>> \/ matches = NoMatch
       THEN /\ resolved' = version
            /\ vpc' = "done"
       ELSE /\ resolved' = version
            /\ vpc' = "loop"
    /\ index' = 0
    /\ UNCHANGED <<version, matches, pipeVars>>

\* lines 331-346: one iteration
VersionIter ==
    /\ vpc = "loop"
    /\ index < Len(matches)
    /\ resolved' = ResolveStep(version, resolved, index, matches[index + 1])
    /\ index' = index + 1
    /\ UNCHANGED <<version, matches, vpc, pipeVars>>

\* line 348: return resolved
VersionReturn ==
    /\ vpc = "loop"
    /\ index = Len(matches)
    /\ vpc' = "done"
    /\ UNCHANGED <<version, matches, resolved, index, pipeVars>>

NextVersion == VersionStart \/ VersionIter \/ VersionReturn

SpecVersion == InitVersion /\ [][NextVersion]_vars

-----------------------------------------------------------------------------
(* Properties *)

Names(tms) == {tms[k].technology : k \in 1..Len(tms)}

\* the elements of s at the positions K, in order
AtPositions(s, K) ==
    LET Nth(n) == CHOOSE k \in K : Cardinality({j \in K : j < k}) = n - 1
    IN  [n \in 1..Cardinality(K) |-> s[Nth(n)]]

\* the names a technology of the rule set excludes
ExcludedBy(name) ==
    LET excludes == Lookup(technologies, name).excludes
    IN  {excludes[k].name : k \in 1..Len(excludes)}

\* C1: every TechMatch that discovery returns, aggregated from hits or
\* produced by implication, has a confidence from 0 to 100
C1_ConfidenceInRange ==
    pc = "done" =>
        \A k \in 1..Len(result) : result[k].confidence \in 0..ConfidenceCap

\* K holds a position exactly when no earlier position of K excludes it
GreedyKept(input, K) ==
    \A k \in 1..Len(input) :
        k \in K <=> \A j \in K : j < k => input[k].technology \notin ExcludedBy(input[j].technology)

ImpliedBy(name) ==
    LET implies == Lookup(technologies, name).implies
    IN  [k \in 1..Len(implies) |-> implies[k].name]

\* A implies B alone, B implies A alone, and the input was one match of A or
\* of B: the outer loop has passed one element, which is recorded first
CyclicPair ==
    /\ ImpliedBy("A") = <<"B">>
    /\ ImpliedBy("B") = <<"A">>
    /\ outer = 2
    /\ techno_impls # <<>>
    /\ techno_impls[1].technology \in {"A", "B"}

\* C3: resolve_implies comes to an end for every rule set and input, cyclic
\* implies included; where A implies B, B implies A and the input is a match
\* of A or of B, it returns A and B, each once
C3_ImpliesTerminates ==
    /\ <>(pc # "implies")
    /\ [](pc = "excludes" /\ CyclicPair =>
            Len(techno_impls) = 2 /\ Names(techno_impls) = {"A", "B"})

\* the cyclic pair resolved from a match of B
C3_Witness ==
    /\ pc = "excludes"
    /\ ImpliedBy("A") = <<"B">>
    /\ ImpliedBy("B") = <<"A">>
    /\ outer = 2
    /\ Len(techno_impls) = 2
    /\ techno_impls[1].technology = "B"
    /\ techno_impls[2].technology = "A"

\* C4: discovery run twice on the same rule set and signals returns the same
\* list, in the same order, with the same confidences and versions
C4_SameResultTwice ==
    pc = "done" /\ run = 2 => result = previous

\* some cookie name was observed with two values that both match the
\* pattern declared under that name by the technology
MatchesTwice(name, entry, p) ==
    \E c \in 1..Len(signals.cookies) :
        LET cookie == signals.cookies[c] IN
        /\ Lower(cookie.key) = entry.key
        /\ \E i, j \in 1..Len(cookie.values) :
              /\ i < j
              /\ Search(p.value, cookie.values[i]) # NoMatch
              /\ Search(p.value, cookie.values[j]) # NoMatch

\* the confidence of a technology when each pattern among its hits counts
\* once, in the order of the hits
RECURSIVE ConfidenceOnce(_, _, _, _, _)
ConfidenceOnce(pms, name, k, seen, confidence) ==
    IF k > Len(pms) THEN confidence
    ELSE IF pms[k].technology # name \/ pms[k].pattern \in seen
         THEN ConfidenceOnce(pms, name, k + 1, seen, confidence)
         ELSE ConfidenceOnce(pms, name, k + 1, seen \cup {pms[k].pattern},
                             IF confidence + pms[k].pattern.confidence <= ConfidenceCap
                             THEN confidence + pms[k].pattern.confidence
                             ELSE ConfidenceCap)

\* C5: two values observed under one cookie name that both match the same
\* pattern of a technology leave one hit of that pattern after set(), and the
\* pattern's confidence enters the technology's confidence once
C5_CookieHitsCollapse ==
    pc = "implies" =>
        \A t \in 1..Len(technologies) :
            \A e \in 1..Len(technologies[t].cookies) :
                \A q \in 1..Len(technologies[t].cookies[e].patterns) :
                    LET tech == technologies[t]
                        p    == tech.cookies[e].patterns[q]
                    IN  MatchesTwice(tech.name, tech.cookies[e], p) =>
                            /\ Cardinality({k \in 1..Len(pattern_matches) :
                                   /\ pattern_matches[k].technology = tech.name
                                   /\ pattern_matches[k].pattern = p}) = 1
                            /\ \E k \in 1..Len(techno_matches) :
                                   /\ techno_matches[k].technology = tech.name
                                   /\ techno_matches[k].confidence =
                                        ConfidenceOnce(pattern_matches, tech.name, 1, {}, 0)

\* the cookie SID was observed with k1 and k2, A's pattern matches both, and
\* A comes out with the pattern's confidence counted once
C5_Witness ==
    /\ pc = "implies"
    /\ signals.url = ""
    /\ signals.cookies = <<[key |-> "SID", values |-> <<"k1", "k2">>]>>
    /\ \E k \in 1..Len(techno_matches) :
          techno_matches[k].technology = "A" /\ techno_matches[k].confidence = 40

\* the sum of the declared confidences of the hits of a technology
RECURSIVE DeclaredSum(_, _, _)
DeclaredSum(pms, name, k) ==
    IF k > Len(pms) THEN 0
    ELSE (IF pms[k].technology = name THEN pms[k].pattern.confidence ELSE 0)
         + DeclaredSum(pms, name, k + 1)

\* C6: the confidence of every technology that extract_techno_matches returns
\* is min(100, S), S the sum of the declared confidences of its hits
C6_ConfidenceIsCappedSum ==
    pc = "implies" =>
        \A k \in 1..Len(techno_matches) :
            LET sum == DeclaredSum(pattern_matches, techno_matches[k].technology, 1)
            IN  techno_matches[k].confidence =
                    IF sum <= ConfidenceCap THEN sum ELSE ConfidenceCap

\* the hits of a technology whose version has 1 to 10 characters
Eligible(pms, name) ==
    {k \in 1..Len(pms) :
        /\ pms[k].technology = name
        /\ Len(pms[k].version) >= 1
        /\ Len(pms[k].version) <= VersionCap}

\* C7: the version of every technology that extract_techno_matches returns is
\* the longest version of 1 to 10 characters among its hits, the first such
\* hit in input order among those of the greatest length, and empty when
\* there is none
C7_VersionIsFirstLongest ==
    pc = "implies" =>
        \A n \in 1..Len(techno_matches) :
            LET el == Eligible(pattern_matches, techno_matches[n].technology) IN
            IF el = {} THEN techno_matches[n].version = <<>>
            ELSE \E k \in el :
                    /\ \A j \in el : Len(pattern_matches[j].version) <= Len(pattern_matches[k].version)
                    /\ \A j \in el : j < k =>
                          Len(pattern_matches[j].version) < Len(pattern_matches[k].version)
                    /\ techno_matches[n].version = pattern_matches[k].version

\* three hits of A: version 1, a version of 11 characters, version 2; A
\* comes out with version 1
C7_Witness ==
    /\ pc = "implies"
    /\ Len(pattern_matches) = 3
    /\ \A k \in 1..3 : pattern_matches[k].technology = "A"
    /\ pattern_matches[1].version = <<"1">>
    /\ Len(pattern_matches[2].version) = VersionCap + 1
    /\ pattern_matches[3].version = <<"2">>
    /\ techno_matches[1].version = <<"1">>

\* the branch holds no backslash, so no back-reference
Literal(s) == \A k \in 1..Len(s) : s[k] # "\\"

\* group i of the match took part with a text that is not empty
Participated(i) == matches[i + 1] # None /\ matches[i + 1] # <<>>

\* the template is the ternary expression on group i with branches t and f,
\* both literal, and group i is a group of the match
OnlyTernary(i, t, f) ==
    /\ vpc = "done"
    /\ matches # NoMatch
    /\ i < Len(matches)
    /\ Literal(t)
    /\ Literal(f)
    /\ version = Ternary(i, t, f)

\* C8 as stated: a template that is only a ternary expression on group i
\* resolves to its true branch when group i took part with a text that is
\* not empty, and to its false branch otherwise
C8_TernaryReturnsBranch ==
    \A i \in 0..MaxGroups, t \in TrueBranches, f \in FalseBranches :
        OnlyTernary(i, t, f) =>
            resolved = IF Participated(i) THEN t ELSE f

\* C8 as amended: the branch comes back without the whitespace around it
C8_TernaryReturnsStrippedBranch ==
    \A i \in 0..MaxGroups, t \in TrueBranches, f \in FalseBranches :
        OnlyTernary(i, t, f) =>
            resolved = IF Participated(i) THEN Strip(t) ELSE Strip(f)

\* the ternary on group 1 whose group did not take part gives the false
\* branch, without its trailing blank
C8_Witness ==
    /\ OnlyTernary(1, <<"a">>, <<"b", " ">>)
    /\ matches[2] = None
    /\ resolved = <<"b">>

\* sub occurs in s
Contains(s, sub) == \E p \in 1..Len(s) : StartsWithAt(s, sub, p)

\* C9: every back-reference to a group 0..N of the match is replaced in the
\* template, so none is left in the version that is returned
C9_NoBackRefLeft ==
    vpc = "done" /\ matches # NoMatch /\ version # <<>> =>
        \A i \in 0..(Len(matches) - 1) : ~Contains(resolved, BackRef(i))

\* the technology names an absent technology in its implies, in its excludes
DanglingImplies(name) ==
    \E k \in 1..Len(ImpliedBy(name)) : ImpliedBy(name)[k] \notin TechNames(technologies)
DanglingExcludes(name) ==
    \E x \in ExcludedBy(name) : x \notin TechNames(technologies)

\* resolution has ended, and it has read the implies of a recorded match or
\* the excludes of a kept match that names an absent technology
MetDangling ==
    /\ pc \in {"done", "KeyError", "RecursionError"}
    /\ \/ \E k \in 1..Len(techno_impls) : DanglingImplies(techno_impls[k].technology)
       \/ \E k \in 1..Len(techn_excls) : DanglingExcludes(techn_excls[k].technology)

\* C10: resolution that meets an implies or excludes entry naming an absent
\* technology ends in the missing-technology-reference error, neither in a
\* generic lookup failure nor in a normal return
C10_MissingReferenceReported ==
    MetDangling => pc = "MissingTechnologyReference"

\* the technologies with a hit among the pattern matches
DirectNames == {pattern_matches[k].technology : k \in 1..Len(pattern_matches)}

\* C11: a technology of the final result that has no hit of its own, and so
\* is there only because another technology implies it, has the empty version
C11_ImpliedOnlyHasNoVersion ==
    pc = "done" =>
        \A k \in 1..Len(result) :
            result[k].technology \notin DirectNames => result[k].version = <<>>

\* A was matched on its url with a version, C has no hit and is in the
\* result, implied by A
C11_Witness ==
    /\ pc = "done"
    /\ DirectNames = {"A"}
    /\ \E k \in 1..Len(result) :
          result[k].technology = "A" /\ result[k].version # <<>>
    /\ \E k \in 1..Len(result) :
          result[k].technology = "C" /\ result[k].version = <<>>

\* the positions of the hits that are the first of their technology
FirstHits(pms) ==
    {k \in 1..Len(pms) : \A j \in 1..(k - 1) : pms[j].technology # pms[k].technology}

\* the technology names of a list of matches, in order
NameSeq(tms) == [k \in 1..Len(tms) |-> tms[k].technology]

\* C12: extract_techno_matches returns one TechMatch for each technology name
\* among the hits, in the order of the first hit of each technology
C12_OnePerTechnologyInFirstHitOrder ==
    pc = "implies" =>
        NameSeq(techno_matches) =
            NameSeq(AtPositions(pattern_matches, FirstHits(pattern_matches)))

\* hits of B, A, B in this order come out as B, A
C12_Witness ==
    /\ pc = "implies"
    /\ NameSeq(pattern_matches) = <<"B", "A", "B">>
    /\ NameSeq(techno_matches) = <<"B", "A">>

\* resolve_implies is about to start on the output of extract_techno_matches
AtImpliesEntry == pc = "implies" /\ outer = 1 /\ techno_impls = <<>> /\ stack = <<>>

\* the directly matched technologies in the order match_all found them
DiscoveryOrder ==
    LET hits == MatchAll(technologies, signals)
    IN  NameSeq(AtPositions(hits, FirstHits(hits)))

\* C13: the list handed to resolve_implies holds the directly matched
\* technologies in the order in which match_all yielded their first hits
C13_ImpliesInputInDiscoveryOrder ==
    AtImpliesEntry => NameSeq(techno_matches) = DiscoveryOrder

\* the template is the back-reference to group 1 followed by the ternary
\* expression on group 2 with literal branches, and group 1 holds a text
BackRefThenTernary(t, f) ==
    /\ vpc = "done"
    /\ Len(matches) = 3
    /\ matches[2] # None
    /\ matches[2] # <<>>
    /\ Literal(t)
    /\ Literal(f)
    /\ version = BackRef(1) \o Ternary(2, t, f)

\* C14: the ternary expression on group 2 is replaced inside the working
\* string, so the text put in for group 1 before is in the returned version
\* and no back-reference to group 1 is left
C14_TernaryKeepsEarlierGroups ==
    \A t \in TrueBranches, f \in FalseBranches :
        BackRefThenTernary(t, f) =>
            /\ Contains(resolved, matches[2])
            /\ ~Contains(resolved, BackRef(1))

\* C15: two pattern matches are equal exactly when they agree on the
\* technology name, the pattern key and the pattern value; two hits of one
\* technology from patterns of different key or value are not equal (seen on
\* the hits that extract_techno_matches has compared)
C15_EqualityIsByTriple ==
    pc = "implies" =>
        \A i, j \in 1..Len(pattern_matches) :
            PatternMatchEq(pattern_matches[i], pattern_matches[j])
                <=> /\ pattern_matches[i].technology = pattern_matches[j].technology
                    /\ pattern_matches[i].pattern.key = pattern_matches[j].pattern.key
                    /\ pattern_matches[i].pattern.value = pattern_matches[j].pattern.value

\* the outer loop of resolve_implies has ended: techno_impls is about to be
\* returned, techno_matches is still the input
AtImpliesExit == pc = "implies" /\ stack = <<>> /\ outer > Len(techno_matches)

\* what a recorded match hands to the technologies it implies, in
\* declaration order
Derived(tm) ==
    LET implies == IF tm.technology \in TechNames(technologies)
                   THEN Lookup(technologies, tm.technology).implies
                   ELSE <<>>
    IN  [k \in 1..Len(implies) |->
            TechMatch(implies[k].name,
                      IF implies[k].confidence <= tm.confidence
                      THEN implies[k].confidence
                      ELSE tm.confidence,
                      <<>>)]

\* the depth-first pre-order walk of the implies graph with a visited set:
\* a match whose name is new is recorded and followed at once by the walk of
\* what it implies
RECURSIVE Walk(_, _)
RECURSIVE WalkAll(_, _)
Walk(out, tm) ==
    IF tm.technology \in Names(out) THEN out
    ELSE WalkAll(Append(out, tm), Derived(tm))
WalkAll(out, tms) ==
    IF tms = <<>> THEN out
    ELSE WalkAll(Walk(out, Head(tms)), Tail(tms))

PreOrder(input) == WalkAll(<<>>, input)

\* C16: in the output of resolve_implies every technology name occurs once,
\* and its entry is the one made at its first visit: an input match as it
\* was given, or an implied one with the confidence min(imply.confidence,
\* parent confidence) of the path that came first and the empty version
C16_EntryIsFirstVisit ==
    AtImpliesExit =>
        /\ \A i, j \in 1..Len(techno_impls) :
              techno_impls[i].technology = techno_impls[j].technology => i = j
        /\ {techno_impls[k] : k \in 1..Len(techno_impls)} =
              {PreOrder(techno_matches)[k] : k \in 1..Len(PreOrder(techno_matches))}

\* A implies C with confidence 50 and the input is A, C, both matched with
\* confidence 70 and a version: C keeps the entry made on the path from A
C16_Witness ==
    /\ AtImpliesExit
    /\ NameSeq(techno_matches) = <<"A", "C">>
    /\ techno_matches[2] = TechMatch("C", 70, <<"1">>)
    /\ Lookup(technologies, "A").implies = <<Imply("C", 50)>>
    /\ techno_impls = <<TechMatch("A", 70, <<"1">>), TechMatch("C", 50, <<>>)>>

\* C17: resolve_implies returns the technologies in the depth-first
\* pre-order of the implies graph with a visited set: input matches in input
\* order, each new technology followed at once by the walk of its implies in
\* declaration order, before the next input match
C17_OutputIsDepthFirstPreOrder ==
    AtImpliesExit => NameSeq(techno_impls) = NameSeq(PreOrder(techno_matches))

\* A implies B then C, B implies D, and the input is A: D, reached below B,
\* comes before C
C17_Witness ==
    /\ AtImpliesExit
    /\ NameSeq(techno_matches) = <<"A">>
    /\ ImpliedBy("A") = <<"B", "C">>
    /\ ImpliedBy("B") = <<"D">>
    /\ NameSeq(techno_impls) = <<"A", "B", "D", "C">>

\* a matcher that evaluates every field of a technology on the supplied
\* value, whether or not the value is empty
EveryField(tech, sig) ==
       MatchStr(tech, "url", sig.url)
    \o MatchPairs(tech, "headers", sig.headers)
    \o MatchPairs(tech, "cookies", sig.cookies)
    \o MatchStr(tech, "html", sig.html)
    \o MatchPairs(tech, "meta", sig.metas)
    \o MatchList(tech, "scripts", sig.scripts)
    \o MatchPairs(tech, "js", sig.js_vars)

\* C18: match_all yields the pattern matches of the matcher that evaluates
\* every field without the short-circuit, an empty url or html string
\* against patterns that match the empty string included
C18_SkippingFieldsChangesNothing ==
    pc = "set" =>
        pattern_matches =
            Concat([k \in 1..Len(technologies) |-> EveryField(technologies[k], signals)])

\* the technologies reached from a set of names along implies
RECURSIVE ImpliesClosure(_)
ImpliesClosure(S) ==
    LET T == S \cup UNION {{ImpliedBy(n)[k] : k \in 1..Len(ImpliedBy(n))} : n \in S}
    IN  IF T = S THEN S ELSE ImpliesClosure(T)

\* the position of a technology in the output of resolve_implies
PositionOf(name) ==
    CHOOSE k \in 1..Len(techno_impls) : techno_impls[k].technology = name

\* some kept technology that stood before name in the output of
\* resolve_implies excludes name
ExcludedByEarlierKept(name) ==
    \E k \in 1..Len(result) :
        /\ PositionOf(result[k].technology) < PositionOf(name)
        /\ name \in ExcludedBy(result[k].technology)

\* C19: implication is resolved before exclusion, so when resolve_excludes
\* removes a technology, every technology it implies, directly or through
\* others, is still in the final result unless an earlier kept technology
\* excludes that one itself
C19_ImpliedOutliveExcluded ==
    pc = "done" =>
        \A x \in Names(techno_impls) \ Names(result) :
            \A y \in ImpliesClosure({x}) \ {x} :
                y \in Names(result) \/ ExcludedByEarlierKept(y)

\* A excludes B, B implies D, the input is A, B: B is removed and D stays
C19_Witness ==
    /\ pc = "done"
    /\ "B" \in ExcludedBy("A")
    /\ ImpliedBy("B") = <<"D">>
    /\ NameSeq(techno_impls) = <<"A", "B", "D">>
    /\ NameSeq(result) = <<"A", "D">>

====
